---- MODULE Spec2Model ----
(***************************************************************************)
(* Model of src/src/remote_mem.rs: typed reads and writes of another       *)
(* process's memory through process_vm_readv / process_vm_writev.          *)
(*                                                                         *)
(* A value of type T is modelled by its bytes (a sequence of size_of(T)    *)
(* numbers), a remote address by a natural number, and the remote          *)
(* process's memory by a function from addresses to bytes.  One OS         *)
(* transfer moves its byte range one ALG-aligned chunk at a time, which is *)
(* the platform assumption documented above ALG in the source; the remote  *)
(* process may write between two chunks and between two transfers.         *)
(***************************************************************************)
EXTENDS Integers, Sequences, FiniteSets, TLC

\* const ALG: usize = 8
ALG == 8

\* Bounds of the model.
MaxLen == 9            \* largest size_of(T) a call is made with (one more than ALG)
MaxCalls == 2          \* calls made in one run of the sequential specification
MaxRemoteWrites == 2   \* writes of the remote process in one run of SpecConc
MaxShort == 1          \* short counts 0..MaxShort-1 are tried besides k-1

MemSize == 4 * ALG
Addrs == 0 .. (MemSize - 1)
\* Addresses handed to the operations: every residue modulo ALG, with one
\* whole window below and two above.  A run works on one of them.
CallAddrs == ALG .. (2 * ALG - 1)
Lens == 0 .. MaxLen
Uninit == -1           \* a byte of MaybeUninit storage never written

Min(x, y) == IF x <= y THEN x ELSE y

VARIABLES
    mem,        \* remote memory: address -> byte
    pc,         \* position of the calling thread
    op,         \* operation in progress: "load", "store", "read", "write"
    addr,       \* the addr argument of the run's calls
    len,        \* size_of::<T>()
    val,        \* bytes of its val argument (store, write)
    offset,     \* local `offset` of process_load / process_store
    aligned,    \* local `aligned` of process_load / process_store
    foo,        \* local `foo` of process_load
    data,       \* local `data` of process_load / process_store
    xfer,       \* the OS transfer in flight
    ret,        \* what the call returned
    log,        \* the OS transfers the call in progress has issued, in order
    calls,      \* calls made so far
    budget,     \* calls this run may make
    rleft,      \* writes the remote process may still make
    memAtCall,  \* remote memory when the call in progress was made
    snaps,      \* contents of [addr, addr+len) at every instant since the call
    shadow,     \* memAtCall with the remote process's writes since, and no others
    rwritten,   \* addresses the remote process wrote since the call was made
    rwBetween,  \* it wrote between a store's window read and its write-back
    prev        \* the previous call: operation, arguments and result

vars == << mem, pc, op, addr, len, val, offset, aligned, foo, data, xfer, ret,
           log, calls, budget, rleft, memAtCall, snaps, shadow, rwritten,
           rwBetween, prev >>

(***************************************************************************)
(* Results.                                                                *)
(***************************************************************************)
Ret(k, v, i, s) == [kind |-> k, val |-> v, is |-> i, should |-> s]
NoRet == Ret("none", << >>, 0, 0)
Ok(v) == Ret("Ok", v, 0, 0)
ErrRw == Ret("Rw", << >>, 0, 0)
ErrByteCount(i, s) == Ret("ByteCount", << >>, i, s)
AssertFail == Ret("AssertFail", << >>, 0, 0)
IndexPanic == Ret("IndexPanic", << >>, 0, 0)

(***************************************************************************)
(* Alignment arithmetic.                                                   *)
(***************************************************************************)
\* <*const c_void>::align_offset(align): elements (of one byte) to step
\* forward to the next multiple of align; 0 on an aligned pointer.
align_offset(a, align) == (align - (a % align)) % align

\* A slip in process_load's offset: the forward distance process_store uses.
LoadOffsetForward(a) == align_offset(a, ALG)
\* process_load: let offset = ALG - addr.align_offset(ALG)
LoadOffset(a) == ALG - align_offset(a, ALG)
\* process_load: let aligned = addr.sub(offset)
LoadAligned(a) == a - LoadOffset(a)
\* process_store: let offset = addr.align_offset(ALG)
StoreOffset(a) == align_offset(a, ALG)
\* process_store: let aligned = addr.add(offset)
StoreAligned(a) == a + StoreOffset(a)

\* &data[offset .. (offset+len)]
Slice(d, off, l) == [k \in 1 .. l |-> d[off + k]]
\* data[offset .. (offset+len)].copy_from_slice(val_b)
Splice(d, off, v) ==
    [k \in 1 .. Len(d) |-> IF k > off /\ k <= off + Len(v) THEN v[k - off] ELSE d[k]]

\* Bytes of remote memory at [a, a+l)
MemBytes(m, a, l) == [k \in 1 .. l |-> m[a + k - 1]]

(***************************************************************************)
(* OS transfers.                                                           *)
(***************************************************************************)
NoXfer == [dir |-> "none", base |-> 0, len |-> 0, limit |-> 0, done |-> 0,
           failed |-> FALSE, buf |-> << >>]

\* Short counts the OS reports for a request of k bytes.
ShortCounts(k) == {n \in 0 .. (k - 1) : n < MaxShort \/ n = k - 1}

\* What process_vm_readv / process_vm_writev can answer to a request of k
\* bytes: an error, or a count of bytes moved, k or fewer.
Outcomes(k) ==
    {[failed |-> TRUE, n |-> 0]} \cup
    {[failed |-> FALSE, n |-> m] : m \in ShortCounts(k) \cup {k}}

\* process_read_bytes: one process_vm_readv of buf.len() bytes at addr
ReadXfer(a, k, o) ==
    [dir |-> "r", base |-> a, len |-> k, limit |-> o.n, done |-> 0,
     failed |-> o.failed, buf |-> [j \in 1 .. k |-> Uninit]]
\* process_write_bytes: one process_vm_writev of val.len() bytes at addr
WriteXfer(a, bytes, o) ==
    [dir |-> "w", base |-> a, len |-> Len(bytes), limit |-> o.n, done |-> 0,
     failed |-> o.failed, buf |-> bytes]

LogEntry(role, x) ==
    [role |-> role, dir |-> x.dir, base |-> x.base, len |-> x.len,
     n |-> x.limit, failed |-> x.failed]

\* The platform copies a chunk that lies in one ALG-aligned unit atomically:
\* the chunk that starts at byte `pos` of a transfer ending at `lim` stops at
\* the next ALG boundary.
ChunkEnd(pos, lim) == Min(lim, ((pos \div ALG) + 1) * ALG)

XferFinished == xfer.dir # "none" /\ xfer.done = xfer.limit

\* A slip in process_read: the count of bytes read is not compared with len.
ProcessReadResultUnchecked(x) == IF x.failed THEN ErrRw ELSE Ok(x.buf)
\* process_read: the count check and assume_init
ProcessReadResult(x) ==
    IF x.failed THEN ErrRw
    ELSE IF x.limit # x.len THEN ErrByteCount(x.limit, x.len)
    ELSE Ok(x.buf)
\* process_write: the count check
ProcessWriteResult(x) ==
    IF x.failed THEN ErrRw
    ELSE IF x.limit # x.len THEN ErrByteCount(x.limit, x.len)
    ELSE Ok(<< >>)

(***************************************************************************)
(* Initial states.                                                         *)
(***************************************************************************)
NoPrev == [op |-> "none", len |-> 0, val |-> << >>, ret |-> NoRet,
           full |-> TRUE]

InitCommon ==
    /\ mem = [x \in Addrs |-> x]
    /\ pc = "idle"
    /\ op = "none"
    /\ addr \in CallAddrs
    /\ len = 0
    /\ val = << >>
    /\ offset = 0
    /\ aligned = 0
    /\ foo = << >>
    /\ data = << >>
    /\ xfer = NoXfer
    /\ ret = NoRet
    /\ log = << >>
    /\ calls = 0
    /\ memAtCall = [x \in Addrs |-> x]
    /\ snaps = {}
    /\ shadow = [x \in Addrs |-> x]
    /\ rwritten = {}
    /\ rwBetween = FALSE
    /\ prev = NoPrev

\* The caller alone: MaxCalls calls in sequence, no remote writer.
Init == InitCommon /\ budget = MaxCalls /\ rleft = 0
\* One call, with the remote process writing its own memory meanwhile.
InitConc == InitCommon /\ budget = 1 /\ rleft = MaxRemoteWrites

\* Values handed to process_store / process_write, as bytes.
StoreVals(l) == {[k \in 1 .. l |-> 230 + k]}

AllFull(lg) == \A i \in 1 .. Len(lg) : ~lg[i].failed /\ lg[i].n = lg[i].len

(***************************************************************************)
(* The calling thread.                                                     *)
(***************************************************************************)
BeginCall(o, l, v) ==
    /\ pc = "idle"
    /\ calls < budget
    /\ op' = o
    /\ len' = l
    /\ val' = v
    /\ calls' = calls + 1
    /\ memAtCall' = mem
    /\ snaps' = {MemBytes(mem, addr, l)}
    /\ shadow' = mem
    /\ rwritten' = {}
    /\ rwBetween' = FALSE
    /\ UNCHANGED << mem, addr, budget, rleft, prev >>

\* The call ends with result r.
Finish(r) ==
    /\ pc' = "done"
    /\ ret' = r
    /\ xfer' = NoXfer

\* process_load, up to its first transfer:
\*   let foo: T = process_read(pid, addr)?;
CallLoad(l) ==
    /\ BeginCall("load", l, << >>)
    /\ \E o \in Outcomes(l) :
          /\ xfer' = ReadXfer(addr, l, o)
          /\ log' = << LogEntry("probe", ReadXfer(addr, l, o)) >>
    /\ pc' = "load_probe"
    /\ ret' = NoRet
    /\ UNCHANGED << offset, aligned, foo, data >>

\* process_load, from the return of the first process_read to the issue of
\* the window read: the `?`, the two assertions and the offset arithmetic.
LoadAfterProbe ==
    /\ pc = "load_probe"
    /\ XferFinished
    /\ LET r == ProcessReadResult(xfer)
           off == LoadOffset(addr)
           al == LoadAligned(addr)
       IN  IF r.kind # "Ok"
           THEN /\ Finish(r)
                /\ UNCHANGED << offset, aligned, foo, data, log >>
           ELSE IF ~(len <= ALG)
           THEN /\ Finish(AssertFail)
                /\ foo' = r.val
                /\ UNCHANGED << offset, aligned, data, log >>
           ELSE IF ~(addr + len <= al + ALG)
           THEN /\ Finish(AssertFail)
                /\ foo' = r.val
                /\ offset' = off
                /\ aligned' = al
                /\ UNCHANGED << data, log >>
           ELSE /\ foo' = r.val
                /\ offset' = off
                /\ aligned' = al
                /\ \E o \in Outcomes(ALG) :
                      /\ xfer' = ReadXfer(al, ALG, o)
                      /\ log' = Append(log, LogEntry("window", ReadXfer(al, ALG, o)))
                /\ pc' = "load_window"
                /\ UNCHANGED << ret, data >>
    /\ UNCHANGED << mem, op, addr, len, val, calls, budget, rleft, memAtCall,
                    snaps, shadow, rwritten, rwBetween, prev >>

\* process_load, from the return of the window read to Ok(t).
LoadAfterWindow ==
    /\ pc = "load_window"
    /\ XferFinished
    /\ LET r == ProcessReadResult(xfer)
       IN  IF r.kind # "Ok"
           THEN /\ Finish(r)
                /\ UNCHANGED data
           ELSE /\ data' = r.val
                /\ Finish(Ok(Slice(r.val, offset, len)))
    /\ UNCHANGED << mem, op, addr, len, val, offset, aligned, foo, log, calls,
                    budget, rleft, memAtCall, snaps, shadow, rwritten, rwBetween,
                    prev >>

\* process_store, up to its first transfer: the assertion, the offset
\* arithmetic and the issue of the window read.
CallStore(l, v) ==
    /\ BeginCall("store", l, v)
    /\ IF ~(l <= ALG)
       THEN /\ Finish(AssertFail)
            /\ log' = << >>
            /\ UNCHANGED << offset, aligned >>
       ELSE /\ offset' = StoreOffset(addr)
            /\ aligned' = StoreAligned(addr)
            /\ \E o \in Outcomes(ALG) :
                  /\ xfer' = ReadXfer(StoreAligned(addr), ALG, o)
                  /\ log' = << LogEntry("window", ReadXfer(StoreAligned(addr), ALG, o)) >>
            /\ pc' = "store_read"
            /\ ret' = NoRet
    /\ UNCHANGED << foo, data >>

\* process_store, from the return of the window read to the issue of the
\* write: the `?`, the splice and process_write(pid, addr, &data).
StoreAfterRead ==
    /\ pc = "store_read"
    /\ XferFinished
    /\ LET r == ProcessReadResult(xfer)
       IN  IF r.kind # "Ok"
           THEN /\ Finish(r)
                /\ UNCHANGED << data, log >>
           ELSE IF offset + len > ALG
           THEN \* the slice index of data[offset .. (offset+len)] is out of range
                /\ Finish(IndexPanic)
                /\ data' = r.val
                /\ UNCHANGED log
           ELSE /\ data' = Splice(r.val, offset, val)
                /\ \E o \in Outcomes(ALG) :
                      /\ xfer' = WriteXfer(addr, Splice(r.val, offset, val), o)
                      /\ log' = Append(log, LogEntry("writeback",
                                   WriteXfer(addr, Splice(r.val, offset, val), o)))
                /\ pc' = "store_write"
                /\ UNCHANGED ret
    /\ UNCHANGED << mem, op, addr, len, val, offset, aligned, foo, calls, budget,
                    rleft, memAtCall, snaps, shadow, rwritten, rwBetween, prev >>

\* process_store, from the return of process_write to Ok(()).
StoreAfterWrite ==
    /\ pc = "store_write"
    /\ XferFinished
    /\ Finish(ProcessWriteResult(xfer))
    /\ UNCHANGED << mem, op, addr, len, val, offset, aligned, foo, data, log,
                    calls, budget, rleft, memAtCall, snaps, shadow, rwritten, rwBetween, prev >>

\* process_read called directly, up to its transfer.
CallRead(l) ==
    /\ BeginCall("read", l, << >>)
    /\ \E o \in Outcomes(l) :
          /\ xfer' = ReadXfer(addr, l, o)
          /\ log' = << LogEntry("raw", ReadXfer(addr, l, o)) >>
    /\ pc' = "read"
    /\ ret' = NoRet
    /\ UNCHANGED << offset, aligned, foo, data >>

\* process_read, from the return of process_read_bytes.
ReadDone ==
    /\ pc = "read"
    /\ XferFinished
    /\ Finish(ProcessReadResult(xfer))
    /\ UNCHANGED << mem, op, addr, len, val, offset, aligned, foo, data, log,
                    calls, budget, rleft, memAtCall, snaps, shadow, rwritten, rwBetween, prev >>

\* process_write called directly, up to its transfer.
CallWrite(l, v) ==
    /\ BeginCall("write", l, v)
    /\ \E o \in Outcomes(l) :
          /\ xfer' = WriteXfer(addr, v, o)
          /\ log' = << LogEntry("raw", WriteXfer(addr, v, o)) >>
    /\ pc' = "write"
    /\ ret' = NoRet
    /\ UNCHANGED << offset, aligned, foo, data >>

\* process_write, from the return of process_write_bytes.
WriteDone ==
    /\ pc = "write"
    /\ XferFinished
    /\ Finish(ProcessWriteResult(xfer))
    /\ UNCHANGED << mem, op, addr, len, val, offset, aligned, foo, data, log,
                    calls, budget, rleft, memAtCall, snaps, shadow, rwritten, rwBetween, prev >>

\* The caller takes the result and is ready for its next call.
Return ==
    /\ pc = "done"
    /\ calls < budget
    /\ prev' = [op |-> op, len |-> len, val |-> val, ret |-> ret,
                full |-> AllFull(log)]
    /\ pc' = "idle"
    /\ op' = "none"
    /\ len' = 0
    /\ val' = << >>
    /\ offset' = 0
    /\ aligned' = 0
    /\ foo' = << >>
    /\ data' = << >>
    /\ ret' = NoRet
    /\ log' = << >>
    /\ snaps' = {}
    /\ rwritten' = {}
    /\ rwBetween' = FALSE
    /\ UNCHANGED << mem, addr, xfer, shadow, calls, budget, rleft, memAtCall >>

(***************************************************************************)
(* The kernel and the remote process.                                      *)
(***************************************************************************)
\* The kernel moves the next chunk of the transfer in flight.
OsChunk ==
    /\ xfer.dir # "none"
    /\ xfer.done < xfer.limit
    /\ LET from == xfer.base + xfer.done
           to == ChunkEnd(from, xfer.base + xfer.limit)
       IN  /\ IF xfer.dir = "r"
              THEN /\ xfer' = [xfer EXCEPT
                          !.done = to - xfer.base,
                          !.buf = [j \in 1 .. xfer.len |->
                                     IF xfer.base + j - 1 >= from /\ xfer.base + j - 1 < to
                                     THEN mem[xfer.base + j - 1] ELSE xfer.buf[j]]]
                   /\ UNCHANGED << mem, snaps >>
              ELSE /\ xfer' = [xfer EXCEPT !.done = to - xfer.base]
                   /\ mem' = [x \in Addrs |->
                                IF x >= from /\ x < to THEN xfer.buf[x - xfer.base + 1]
                                ELSE mem[x]]
                   /\ snaps' = snaps \cup {MemBytes(mem', addr, len)}
    /\ UNCHANGED << pc, op, addr, len, val, offset, aligned, foo, data, ret, log,
                    calls, budget, rleft, memAtCall, shadow, rwritten, rwBetween,
                    prev >>

\* The byte the remote process's i-th write puts at address x.
RemoteByte(i, x) == 100 + 40 * i + x

\* The remote process stores rl bytes at ra with one instruction: the range
\* changes in one step.
RemoteWrite(ra, rl) ==
    /\ rleft > 0
    /\ pc \notin {"idle", "done"}
    /\ mem' = [x \in Addrs |->
                 IF x >= ra /\ x < ra + rl THEN RemoteByte(rleft, x) ELSE mem[x]]
    /\ shadow' = [x \in Addrs |->
                 IF x >= ra /\ x < ra + rl THEN RemoteByte(rleft, x) ELSE shadow[x]]
    /\ rleft' = rleft - 1
    /\ snaps' = snaps \cup {MemBytes(mem', addr, len)}
    /\ rwritten' = rwritten \cup (ra .. (ra + rl - 1))
    /\ rwBetween' = (\/ rwBetween
                     \/ (pc = "store_read" /\ XferFinished)
                     \/ (pc = "store_write" /\ ~XferFinished))
    /\ UNCHANGED << pc, op, addr, len, val, offset, aligned, foo, data, xfer, ret,
                    log, calls, budget, memAtCall, prev >>

\* What the remote process writes while a call on [addr, addr+len) runs: the
\* whole value (of a size one instruction stores), or the byte just below or
\* just above it.
RemoteRanges ==
    {r \in {<< addr, len >>, << addr - 1, 1 >>, << addr + len, 1 >>} :
        r[2] >= 1 /\ r[2] <= ALG}

CallerNext ==
    \/ \E l \in Lens : CallLoad(l)
    \/ LoadAfterProbe
    \/ LoadAfterWindow
    \/ \E l \in Lens : \E v \in StoreVals(l) : CallStore(l, v)
    \/ StoreAfterRead
    \/ StoreAfterWrite
    \/ \E l \in Lens : CallRead(l)
    \/ ReadDone
    \/ \E l \in Lens : \E v \in StoreVals(l) : CallWrite(l, v)
    \/ WriteDone
    \/ OsChunk

Next ==
    \/ CallerNext
    \/ Return

NextConc ==
    \/ CallerNext
    \/ \E r \in RemoteRanges : RemoteWrite(r[1], r[2])

Spec == Init /\ [][Next]_vars
SpecConc == InitConc /\ [][NextConc]_vars

TypeOK ==
    /\ \A x \in Addrs : mem[x] \in 0 .. 255
    /\ pc \in {"idle", "load_probe", "load_window", "store_read", "store_write",
               "read", "write", "done"}

(***************************************************************************)
(* Properties.                                                             *)
(***************************************************************************)
\* Start of the ALG-aligned window that holds address a.
Window(a) == (a \div ALG) * ALG
\* [base, base+l) lies in one ALG-aligned window.
InOneWindow(base, l) == l = 0 \/ Window(base) = Window(base + l - 1)
\* The transfer logged as e moved fewer bytes than requested.
Short(e) == ~e.failed /\ e.n # e.len
\* Addresses of addr's window outside [addr, addr+len).
Neighbours == {x \in Window(addr) .. (Window(addr) + ALG - 1) : x < addr \/ x >= addr + len}

\* C1: every OS transfer process_load or process_store issues for a value of
\* size_of(T) <= ALG covers a byte range inside one single ALG-aligned window.
C1_TransfersInOneWindow ==
    (op \in {"load", "store"} /\ len <= ALG) =>
        \A i \in 1 .. Len(log) : InOneWindow(log[i].base, log[i].len)

\* C2: round trip.  After process_store(a, v) returned Ok with full transfers,
\* process_load(a) of the same size, with full transfers and no remote
\* writer, returns Ok(v).
C2_RoundTrip ==
    (/\ pc = "done"
     /\ op = "load"
     /\ len <= ALG
     /\ AllFull(log)
     /\ prev.op = "store"
     /\ prev.len = len
     /\ prev.ret.kind = "Ok"
     /\ prev.full) => ret = Ok(prev.val)

\* C3: for a value that fits in its window (1 <= size_of(T), (a mod ALG) +
\* size_of(T) <= ALG), at an aligned address too, process_load with full
\* transfers and no remote writer returns the remote bytes [a, a+size_of(T)),
\* having read the window that starts at a rounded down to ALG.
C3_LoadReturnsRemoteBytes ==
    (/\ pc = "done"
     /\ op = "load"
     /\ 1 <= len
     /\ (addr % ALG) + len <= ALG
     /\ AllFull(log)) =>
        /\ ret = Ok(MemBytes(mem, addr, len))
        /\ aligned = Window(addr)
        /\ offset = addr - aligned

\* C4: non-destructive store.  After process_store of a value of one byte or
\* more returned Ok, with no remote writer, every byte of addr's window
\* outside [addr, addr+len) is what it was before the call.
C4_StorePreservesNeighbours ==
    (pc = "done" /\ op = "store" /\ len >= 1 /\ ret.kind = "Ok") =>
        \A x \in Neighbours : mem[x] = memAtCall[x]

\* C5: no torn read.  With the remote process changing the value in single
\* steps, a value process_load returns in Ok is the content of
\* [addr, addr+len) at one instant between the call and its return.
C5_NoTornRead ==
    (pc = "done" /\ op = "load" /\ ret.kind = "Ok") => ret.val \in snaps

\* C5 witness: a load returned a value the remote process wrote during the call.
C5_LoadSawRemoteUpdate ==
    /\ pc = "done"
    /\ op = "load"
    /\ ret.kind = "Ok"
    /\ len >= 2
    /\ Cardinality(snaps) >= 2
    /\ ret.val # MemBytes(memAtCall, addr, len)

\* C6: short-transfer detection.  When a transfer of a call succeeded with a
\* count n other than the k bytes requested, the call returns
\* Err(ByteCount{is: n, should: k}), and no later transfer was issued.
C6_ShortTransferDetected ==
    \A i \in 1 .. Len(log) :
        Short(log[i]) =>
            /\ i = Len(log)
            /\ pc = "done" => ret = ErrByteCount(log[i].n, log[i].len)

\* C6 witness: a store whose write-back came back short has returned.
C6_ShortWriteBackReturned ==
    /\ pc = "done"
    /\ op = "store"
    /\ Len(log) = 2
    /\ Short(log[2])
    /\ log[2].n = ALG - 1

\* C7: a process_load whose value cannot fit in one aligned window, and a
\* process_store of a value larger than ALG, end in assertion failure
\* whatever the OS transfers answer.
C7_PreconditionAsserts ==
    (/\ pc = "done"
     /\ \/ (op = "load" /\ (len > ALG \/ (addr % ALG) + len > ALG))
        \/ (op = "store" /\ len > ALG)) => ret = AssertFail

\* C8: window containment.  The window read process_load or process_store
\* issues at `aligned` is ALG-aligned and holds [addr, addr+len).
C8_WindowContainsValue ==
    (op \in {"load", "store"} /\ len <= ALG) =>
        \A i \in 1 .. Len(log) :
            log[i].role = "window" =>
                /\ log[i].base % ALG = 0
                /\ log[i].base <= addr
                /\ addr + len <= log[i].base + ALG

\* C9: process_load issues at most one OS transfer; process_store at most
\* two, the window read and then one write issued only after a full read, so
\* that a failed or short read leaves remote memory as it was.
C9_TransferCountAndOrder ==
    /\ op = "load" => Len(log) <= 1
    /\ op = "store" =>
          /\ Len(log) <= 2
          /\ Len(log) >= 1 => log[1].dir = "r"
          /\ Len(log) = 2 =>
                (log[2].dir = "w" /\ ~log[1].failed /\ log[1].n = ALG)
          /\ (Len(log) = 1 /\ pc = "done") => mem = memAtCall

\* C10, second half: when the remote process wrote nothing between
\* process_store's window read and its write-back, no byte it wrote in addr's
\* window outside [addr, addr+len) is lost once process_store returned Ok.
C10_NoLossWithoutRace ==
    (pc = "done" /\ op = "store" /\ len >= 1 /\ ret.kind = "Ok" /\ ~rwBetween) =>
        \A x \in Neighbours \cap rwritten : mem[x] = shadow[x]

\* C10, first half: a store returned Ok after the remote process wrote a
\* neighbouring byte between the read and the write-back, and that byte holds
\* again the stale value process_store had read.
C10_LostUpdate ==
    /\ pc = "done"
    /\ op = "store"
    /\ ret.kind = "Ok"
    /\ rwBetween
    /\ \E x \in Neighbours \cap rwritten :
          mem[x] # shadow[x] /\ mem[x] = memAtCall[x]

====
